---- MODULE Spec2Model ----
(***************************************************************************)
(* Score Viewer (MrVeink/svr): the ingestion-and-normalisation pipeline    *)
(* (CSVHandler, CloudHandler) and the polling loop of ScoreViewer::update. *)
(*                                                                         *)
(* Text is modelled as a sequence of one-character strings, so that        *)
(* to_lowercase, contains, split and trim are computed character by        *)
(* character as the Rust code computes them.  A cell of a remote response  *)
(* is a serde_json::Value; its to_string() is its JSON text.               *)
(***************************************************************************)
EXTENDS Integers, Sequences, FiniteSets, TLC

(***************************************************************************)
(* Bounds of the model.                                                    *)
(***************************************************************************)
MaxCols == 2        \* longest generated header row
MaxRows == 2        \* most data records of a generated local file
MaxValues == 3      \* most rows of a generated remote response
MaxSegs == 3        \* most '/'-separated segments of a generated URL
MaxTime == 10       \* ticks of the one-second subscription that are modelled
MaxDispatch == 2    \* ingestion tasks ever dispatched

(***************************************************************************)
(* Option and Result values.                                               *)
(***************************************************************************)
None == [tag |-> "None"]
Some(x) == [tag |-> "Some", val |-> x]
Ok(x) == [tag |-> "Ok", val |-> x]
Err(e) == [tag |-> "Err", err |-> e]

\* All sequences over S of length at most n.
SeqUpTo(S, n) == UNION {[1..k -> S] : k \in 0..n}

(***************************************************************************)
(* Text primitives (Rust str).                                             *)
(***************************************************************************)
UpperCase == <<"A","B","C","D","E","F","G","H","I","J","K","L","M",
               "N","O","P","Q","R","S","T","U","V","W","X","Y","Z">>
LowerCase == <<"a","b","c","d","e","f","g","h","i","j","k","l","m",
               "n","o","p","q","r","s","t","u","v","w","x","y","z">>

to_lowercase_char(c) ==
    IF \E i \in 1..Len(UpperCase) : UpperCase[i] = c
    THEN LowerCase[CHOOSE i \in 1..Len(UpperCase) : UpperCase[i] = c]
    ELSE c

\* str::to_lowercase
to_lowercase(s) == [i \in 1..Len(s) |-> to_lowercase_char(s[i])]

\* str::contains(pattern)
contains(s, pat) ==
    \E i \in 0..(Len(s) - Len(pat)) : SubSeq(s, i + 1, i + Len(pat)) = pat

\* str::split(sep) collected: the segments between occurrences of sep;
\* a text with k separators has k + 1 segments.
RECURSIVE split(_, _)
split(s, sep) ==
    IF \A i \in 1..Len(s) : s[i] # sep
    THEN <<s>>
    ELSE LET p == CHOOSE i \in 1..Len(s) :
                      s[i] = sep /\ \A j \in 1..(i - 1) : s[j] # sep
         IN  <<SubSeq(s, 1, p - 1)>> \o split(SubSeq(s, p + 1, Len(s)), sep)

\* Iterator::nth(n), n counted from 0.
nth(seq, n) == IF n + 1 <= Len(seq) THEN Some(seq[n + 1]) ELSE None

WhiteSpace == {" ", "\t"}

\* str::trim
RECURSIVE trim(_)
trim(s) ==
    IF s = <<>> THEN s
    ELSE IF s[1] \in WhiteSpace THEN trim(Tail(s))
    ELSE IF s[Len(s)] \in WhiteSpace THEN trim(SubSeq(s, 1, Len(s) - 1))
    ELSE s

is_empty(s) == Len(s) = 0

(***************************************************************************)
(* Text constants of the source.                                           *)
(***************************************************************************)
s_sport_id == <<"s","p","o","r","t","_","i","d">>
s_team_members == <<"t","e","a","m","_","m","e","m","b","e","r","s">>
s_team_name == <<"t","e","a","m","_","n","a","m","e">>
s_info == <<"i","n","f","o">>
s_result_code == <<"r","e","s","u","l","t","_","c","o","d","e">>
s_position_pre == <<"p","o","s","i","t","i","o","n","_","p","r","e">>

s_category == <<"c","a","t","e","g","o","r","y">>
s_first_name == <<"f","i","r","s","t","_","n","a","m","e">>
s_last_name == <<"l","a","s","t","_","n","a","m","e">>
s_organization == <<"o","r","g","a","n","i","z","a","t","i","o","n">>
s_napat == <<"n","a","p","a","t">>
s_result == <<"r","e","s","u","l","t">>
s_posit == <<"p","o","s","i","t",".">>

s_Series == <<"S","e","r","i","e","s">>
s_Name == <<"N","a","m","e">>
s_Surname == <<"S","u","r","n","a","m","e">>
s_Club == <<"C","l","u","b">>
s_X == <<"X">>
s_Result == <<"R","e","s","u","l","t">>
s_Rank == <<"R","a","n","k">>

s_part == <<"p","a","r","t","-">>
s_psum == <<"p","s","u","m","-">>

(***************************************************************************)
(* TableData (data-types.rs).                                              *)
(***************************************************************************)
TableData(h, r) == [headers |-> h, rows |-> r]
TableData_empty == TableData(<<>>, <<>>)

(***************************************************************************)
(* CSVHandler (csv-handler.rs).                                            *)
(***************************************************************************)
get_columns_to_hide ==
    <<s_sport_id, s_team_members, s_team_name,
      s_info, s_result_code, s_position_pre>>

\* The replacement table of replace_header, in source order.
replacements ==
    << <<s_category, s_Series>>, <<s_first_name, s_Name>>,
       <<s_last_name, s_Surname>>, <<s_organization, s_Club>>,
       <<s_napat, s_X>>, <<s_result, s_Result>>, <<s_posit, s_Rank>> >>

\* The loop over the replacement table: the first entry whose key the
\* lower-cased header contains decides; no entry leaves the header as it is.
FirstReplacement(header, header_lower) ==
    IF \E k \in 1..Len(replacements) : contains(header_lower, replacements[k][1])
    THEN replacements[CHOOSE k \in 1..Len(replacements) :
                          /\ contains(header_lower, replacements[k][1])
                          /\ \A j \in 1..(k - 1) :
                                 ~contains(header_lower, replacements[j][1])][2]
    ELSE header

CSVHandler_replace_header(header) ==
    LET header_lower == to_lowercase(header)
        part_num == nth(split(header, "-"), 1)
    IN  IF contains(header_lower, s_part) /\ part_num.tag = "Some"
        THEN <<"S">> \o part_num.val
        ELSE IF ~contains(header_lower, s_part)
                /\ contains(header_lower, s_psum) /\ part_num.tag = "Some"
        THEN <<"P">> \o part_num.val
        ELSE FirstReplacement(header, header_lower)

\* Mutant: the keywords are matched against the header as written.
CSVHandler_should_hide_CaseSensitive(header, columns_to_hide) ==
    \E k \in 1..Len(columns_to_hide) : contains(header, columns_to_hide[k])

\* The closure of process_headers deciding whether a column is hidden.
CSVHandler_should_hide(header, columns_to_hide) ==
    \E k \in 1..Len(columns_to_hide) :
        contains(to_lowercase(header), columns_to_hide[k])

RECURSIVE CSVHandler_processed_headers(_, _)
CSVHandler_processed_headers(headers, columns_to_hide) ==
    IF headers = <<>> THEN <<>>
    ELSE (IF CSVHandler_should_hide(Head(headers), columns_to_hide)
          THEN <<>>
          ELSE <<CSVHandler_replace_header(Head(headers))>>)
         \o CSVHandler_processed_headers(Tail(headers), columns_to_hide)

\* process_headers returns (processed_headers, visible_columns).
CSVHandler_process_headers(headers, columns_to_hide) ==
    [processed_headers |->
         CSVHandler_processed_headers(headers, columns_to_hide),
     visible_columns |->
         [i \in 1..Len(headers) |->
              ~CSVHandler_should_hide(headers[i], columns_to_hide)]]

\* The filter of read_csv over an enumerated record: the cell at index i
\* (counted from 1 here) stays when i is within visible_columns and marked.
RECURSIVE CSVHandler_filtered_row(_, _, _)
CSVHandler_filtered_row(record, visible_columns, i) ==
    IF i > Len(record) THEN <<>>
    ELSE (IF i <= Len(visible_columns) /\ visible_columns[i]
          THEN <<record[i]>>
          ELSE <<>>)
         \o CSVHandler_filtered_row(record, visible_columns, i + 1)

\* "Skip empty rows" of read_csv.
CSVHandler_is_empty_row(record) ==
    \A i \in 1..Len(record) : is_empty(trim(record[i]))

\* Mutant: the first record that fails to parse ends the loop.
RECURSIVE CSVHandler_read_rows_StopAtError(_, _)
CSVHandler_read_rows_StopAtError(records, visible_columns) ==
    IF records = <<>> THEN <<>>
    ELSE LET result == Head(records)
             rest == CSVHandler_read_rows_StopAtError(Tail(records),
                                                      visible_columns)
         IN  IF result.tag = "Err" THEN <<>>
             ELSE IF \A i \in 1..Len(result.val) : is_empty(trim(result.val[i]))
             THEN rest
             ELSE <<CSVHandler_filtered_row(result.val, visible_columns, 1)>>
                  \o rest

\* The loop of read_csv over reader.records(): an Err item is skipped, an
\* empty record is skipped, any other record is filtered and pushed.
RECURSIVE CSVHandler_read_rows(_, _)
CSVHandler_read_rows(records, visible_columns) ==
    IF records = <<>> THEN <<>>
    ELSE LET result == Head(records)
             rest == CSVHandler_read_rows(Tail(records), visible_columns)
         IN  IF result.tag = "Err" THEN rest
             ELSE IF CSVHandler_is_empty_row(result.val) THEN rest
             ELSE <<CSVHandler_filtered_row(result.val, visible_columns, 1)>>
                  \o rest

\* read_csv.  A file is what the csv reader makes of it: whether File::open
\* succeeds, the Result of reader.headers(), and the Results that
\* reader.records() yields (flexible: records of any length).
read_csv(file) ==
    IF ~file.openable THEN TableData_empty
    ELSE IF file.headers.tag = "Err" THEN TableData_empty
    ELSE LET ph == CSVHandler_process_headers(file.headers.val,
                                              get_columns_to_hide)
         IN  TableData(ph.processed_headers,
                       CSVHandler_read_rows(file.records, ph.visible_columns))

(***************************************************************************)
(* serde_json::Value, the cell type of a remote response.                  *)
(***************************************************************************)
JString(s) == [t |-> "String", s |-> s]
JNumber(digits) == [t |-> "Number", s |-> digits]
JNull == [t |-> "Null", s |-> <<"n","u","l","l">>]

\* The JSON escaping of a string's characters.
RECURSIVE json_escape(_)
json_escape(s) ==
    IF s = <<>> THEN <<>>
    ELSE (IF Head(s) \in {"\"", "\\"} THEN <<"\\", Head(s)>> ELSE <<Head(s)>>)
         \o json_escape(Tail(s))

\* Value::to_string (Display): the JSON text of the value, so a String is
\* written between double quotes.
Value_to_string(v) ==
    IF v.t = "String" THEN <<"\"">> \o json_escape(v.s) \o <<"\"">> ELSE v.s

\* Value::as_str: the text of a String, None for any other value.
Value_as_str(v) == IF v.t = "String" THEN Some(v.s) ELSE None

(***************************************************************************)
(* CloudHandler (cloud-handler.rs).                                        *)
(***************************************************************************)
CloudHandler_replace_header(header) ==
    LET header_lower == to_lowercase(header)
        part_num == nth(split(header, "-"), 1)
    IN  IF contains(header_lower, s_part) /\ part_num.tag = "Some"
        THEN <<"S">> \o part_num.val
        ELSE IF ~contains(header_lower, s_part)
                /\ contains(header_lower, s_psum) /\ part_num.tag = "Some"
        THEN <<"P">> \o part_num.val
        ELSE FirstReplacement(header, header_lower)

s_InvalidUrl == "Invalid spreadsheet URL"

\* Mutant: a segment that contains "d" is taken for the segment "d".
extract_spreadsheet_id_Contains(url) ==
    LET parts == split(url, "/")
        hit(i) == contains(parts[i], <<"d">>) /\ i + 1 <= Len(parts)
    IN  IF \E i \in 1..Len(parts) : hit(i)
        THEN Ok(parts[(CHOOSE i \in 1..Len(parts) :
                           hit(i) /\ \A j \in 1..(i - 1) : ~hit(j)) + 1])
        ELSE Err(s_InvalidUrl)

\* extract_spreadsheet_id: the segment after the first segment "d" that
\* has a successor.
extract_spreadsheet_id(url) ==
    LET parts == split(url, "/")
        hit(i) == parts[i] = <<"d">> /\ i + 1 <= Len(parts)
    IN  IF \E i \in 1..Len(parts) : hit(i)
        THEN Ok(parts[(CHOOSE i \in 1..Len(parts) :
                           hit(i) /\ \A j \in 1..(i - 1) : ~hit(j)) + 1])
        ELSE Err(s_InvalidUrl)

\* The scan of process_data for the row that starts the table (index
\* counted from 1 here; the source's start_index = 0 is 1).
CloudHandler_is_category_row(row) ==
    row # <<>> /\ to_lowercase(Value_to_string(row[1])) = s_category

CloudHandler_start_index(values) ==
    IF \E i \in 1..Len(values) : CloudHandler_is_category_row(values[i])
    THEN CHOOSE i \in 1..Len(values) :
             /\ CloudHandler_is_category_row(values[i])
             /\ \A j \in 1..(i - 1) : ~CloudHandler_is_category_row(values[j])
    ELSE 1

CloudHandler_columns_to_hide ==
    <<s_sport_id, s_team_members, s_team_name,
      s_info, s_result_code, s_position_pre>>

CloudHandler_should_hide(header_str) ==
    \E k \in 1..Len(CloudHandler_columns_to_hide) :
        contains(to_lowercase(header_str), CloudHandler_columns_to_hide[k])

RECURSIVE CloudHandler_processed_headers(_)
CloudHandler_processed_headers(headers) ==
    IF headers = <<>> THEN <<>>
    ELSE LET header_str == Value_to_string(Head(headers))
         IN  (IF CloudHandler_should_hide(header_str)
              THEN <<>>
              ELSE <<CloudHandler_replace_header(header_str)>>)
             \o CloudHandler_processed_headers(Tail(headers))

CloudHandler_visible_columns(headers) ==
    [i \in 1..Len(headers) |->
         ~CloudHandler_should_hide(Value_to_string(headers[i]))]

\* "Skip empty rows" of process_data.
CloudHandler_is_empty_row(row) ==
    \/ row = <<>>
    \/ \A i \in 1..Len(row) :
           LET s == Value_as_str(row[i])
           IN  IF s.tag = "Some" THEN is_empty(trim(s.val)) ELSE TRUE

\* Mutant: a cell beyond the header row is taken as visible.
RECURSIVE CloudHandler_filtered_row_NoLengthGuard(_, _, _)
CloudHandler_filtered_row_NoLengthGuard(row, visible_columns, i) ==
    IF i > Len(row) THEN <<>>
    ELSE (IF i > Len(visible_columns) \/ visible_columns[i]
          THEN <<Value_to_string(row[i])>>
          ELSE <<>>)
         \o CloudHandler_filtered_row_NoLengthGuard(row, visible_columns, i + 1)

RECURSIVE CloudHandler_filtered_row(_, _, _)
CloudHandler_filtered_row(row, visible_columns, i) ==
    IF i > Len(row) THEN <<>>
    ELSE (IF i <= Len(visible_columns) /\ visible_columns[i]
          THEN <<Value_to_string(row[i])>>
          ELSE <<>>)
         \o CloudHandler_filtered_row(row, visible_columns, i + 1)

RECURSIVE CloudHandler_process_rows(_, _)
CloudHandler_process_rows(rows, visible_columns) ==
    IF rows = <<>> THEN <<>>
    ELSE LET rest == CloudHandler_process_rows(Tail(rows), visible_columns)
         IN  IF CloudHandler_is_empty_row(Head(rows)) THEN rest
             ELSE <<CloudHandler_filtered_row(Head(rows), visible_columns, 1)>>
                  \o rest

\* process_data.  response.values is None or Some(rows of Values).
process_data(response) ==
    IF response.values.tag = "None" THEN Ok(TableData_empty)
    ELSE LET values == response.values.val
         IN  IF values = <<>> THEN Ok(TableData_empty)
             ELSE LET start_index == CloudHandler_start_index(values)
                      relevant_data == SubSeq(values, start_index, Len(values))
                  IN  IF relevant_data = <<>> THEN Ok(TableData_empty)
                      ELSE LET headers == relevant_data[1]
                               visible_columns ==
                                   CloudHandler_visible_columns(headers)
                           IN  Ok(TableData(
                                   CloudHandler_processed_headers(headers),
                                   CloudHandler_process_rows(
                                       Tail(relevant_data), visible_columns)))

\* The steps fetch_data performs, in order; each "?" returns the error.
\* env is what the outside answers: whether authenticate() succeeds and what
\* values_get returns.
s_Sheet1 == <<"S","h","e","e","t","1">>
s_range_suffix == <<"!","A",":","Z">>

fetch_data(spreadsheet_url, sheet_name, env) ==
    LET spreadsheet_id == extract_spreadsheet_id(spreadsheet_url)
        sheet == IF is_empty(sheet_name) THEN s_Sheet1 ELSE sheet_name
        range == sheet \o s_range_suffix
    IN  IF spreadsheet_id.tag = "Err"
        THEN [result |-> spreadsheet_id,
              steps |-> <<"extract_spreadsheet_id">>,
              request |-> None]
        ELSE IF ~env.auth_ok
        THEN [result |-> Err("authenticate"),
              steps |-> <<"extract_spreadsheet_id", "authenticate">>,
              request |-> None]
        ELSE IF env.response.tag = "Err"
        THEN [result |-> Err("values_get"),
              steps |-> <<"extract_spreadsheet_id", "authenticate",
                          "values_get">>,
              request |-> Some(<<spreadsheet_id.val, range>>)]
        ELSE [result |-> process_data(env.response.val),
              steps |-> <<"extract_spreadsheet_id", "authenticate",
                          "values_get", "process_data">>,
              request |-> Some(<<spreadsheet_id.val, range>>)]

(***************************************************************************)
(* The async blocks ScoreViewer::update hands to Command::perform          *)
(* (main.rs): what the DataUpdated message of a finished task carries.     *)
(***************************************************************************)
unwrap_or_empty(result) ==
    IF result.tag = "Ok" THEN result.val ELSE TableData_empty

local_task(file) == read_csv(file)

cloud_task(url, sheet, env) == unwrap_or_empty(fetch_data(url, sheet, env).result)

(***************************************************************************)
(* Inputs.                                                                 *)
(***************************************************************************)
h_Category == <<"C","a","t","e","g","o","r","y">>
h_Sport_ID == <<"S","p","o","r","t","_","I","D">>
h_Result_Code == <<"R","e","s","u","l","t","_","C","o","d","e">>
h_part_3 == <<"p","a","r","t","-","3">>
h_PSUM_12 == <<"P","S","U","M","-","1","2">>
h_nimi == <<"n","i","m","i">>
h_CATEGORY == <<"C","A","T","E","G","O","R","Y">>
h_Part_1_2 == <<"P","a","r","t","-","1","-","2">>
h_psum_part_2 == <<"p","s","u","m","-","p","a","r","t","-","2">>
h_part_psum == <<"p","a","r","t","-","p","s","u","m","-">>
h_part_ == <<"p","a","r","t","-">>
h_a_b == <<"a","-","b">>
h_result_category == s_result \o <<" ">> \o s_category
h_last_first == s_last_name \o <<"/">> \o s_first_name
h_Napat_result == <<"N","a","p","a","t"," ">> \o s_result
h_Posit == <<"P","o","s","i","t",".">>
h_position == <<"p","o","s","i","t","i","o","n">>
h_Organization == <<"O","r","g","a","n","i","z","a","t","i","o","n">>
h_team_info == <<"T","e","a","m"," ","I","N","F","O">>
h_category_part_1 == s_category \o <<" ">> \o s_part \o <<"1">>
h_quote == <<"a","\"","b">>

\* Headers of generated header rows.
HeaderPool == {h_Category, h_Sport_ID, s_result, h_part_3, h_nimi}

\* Headers handed to replace_header alone.
HeaderPoolAll ==
    HeaderPool \cup
    {h_Result_Code, h_PSUM_12, h_CATEGORY, h_Part_1_2, h_psum_part_2, h_part_psum, h_part_, h_a_b,
     h_result_category, h_last_first, h_Napat_result, h_Posit, h_position,
     h_Organization, h_category_part_1, h_quote, s_first_name, s_last_name,
     s_napat, <<>>}

c_U10 == <<"U","1","0">>
c_5 == <<"5">>
c_12_3 == <<"1","2",".","3">>
c_extra == <<"e","x","t","r","a">>
c_blank == <<" ", "\t">>

\* Records of generated local files: blank, short, longer than any
\* generated header row, blank but for its last cell.
RowPool ==
    { <<c_blank, <<>> >>,
      <<c_U10>>,
      <<c_U10, c_5, c_12_3, c_extra>>,
      << <<>>, c_5>> }

s_csv_error == "csv::Error"

\* A file that cannot be opened, and the files that can.
MissingFile ==
    [openable |-> FALSE, headers |-> Err(s_csv_error), records |-> <<>>]

LocalFiles ==
    {MissingFile} \cup
    {[openable |-> TRUE, headers |-> h, records |-> rs] :
         h \in {Err(s_csv_error)} \cup {Ok(hs) : hs \in SeqUpTo(HeaderPool, MaxCols)},
         rs \in SeqUpTo({Err(s_csv_error)} \cup {Ok(r) : r \in RowPool}, MaxRows)}

\* Rows of generated remote responses: header rows and data rows alike.
CloudRowPool ==
    { <<JString(h_Category), JString(h_Sport_ID), JString(s_result)>>,
      <<JString(h_CATEGORY), JString(h_part_3)>>,
      <<JString(c_U10), JString(c_5), JString(c_12_3), JString(c_extra)>>,
      <<JString(c_U10)>>,
      <<>>,
      <<JString(c_blank), JString(<<>>)>>,
      <<JNumber(c_5), JNumber(c_12_3)>>,
      <<JNull, JString(c_5)>> }

Responses ==
    {[values |-> None]} \cup
    {[values |-> Some(vs)] : vs \in SeqUpTo(CloudRowPool, MaxValues)}

RECURSIVE join(_, _)
join(segs, sep) ==
    IF Len(segs) = 0 THEN <<>>
    ELSE IF Len(segs) = 1 THEN segs[1]
    ELSE segs[1] \o <<sep>> \o join(Tail(segs), sep)

UrlSegments == {<<"d">>, <<"k">>, <<"d","d">>, <<>>}

\* A URL is its segments joined by '/'; it has at least one segment.
UrlSegs == SeqUpTo(UrlSegments, MaxSegs) \ {<<>>}

s_Tab == <<"T","a","b">>
SheetNames == {<<>>, s_Tab}

\* What the outside can answer to one fetch_data.
SmallResponses ==
    {[values |-> None],
     [values |-> Some(<< <<JString(h_Category), JString(s_result)>>,
                         <<JString(c_U10), JString(c_12_3)>> >>)]}

FetchEnvs ==
    {[auth_ok |-> a, response |-> r] :
         a \in BOOLEAN,
         r \in {Err("values_get")} \cup {Ok(x) : x \in SmallResponses}}

(***************************************************************************)
(* State.  The fields of ScoreViewer that update() reads (main.rs 46-61;   *)
(* the theme, the dialog flag, the scroll state and the write-only copies  *)
(* file_path, spreadsheet_url and sheet_name are left out), the outside    *)
(* world, and the tasks that Command::perform has dispatched.              *)
(***************************************************************************)
VARIABLES
    data_source,            \* Option<DataSource>
    last_data,              \* Option<TableData>
    last_check,             \* Instant, in seconds
    last_modified,          \* Option<SystemTime>
    cloud_url_input,        \* String
    cloud_sheet_input,      \* String
    result_column_index,    \* Option<usize>, counted from 1 here
    now,                    \* Instant::now(), in seconds
    fs,                     \* the file of each path: None, or mtime and content
    tasks,                  \* the dispatched tasks that still run
    inbox,                  \* the DataUpdated messages not yet handled
    next_id,                \* history: the number of the next task dispatched
    last_published,         \* history: the message DataUpdated handled last
                            \* and the number of the task published before
    published,              \* history: how often each task was published
    call,       \* SpecNorm: the ingestion function called and its arguments
    ret         \* SpecNorm: what the call returned, None while it runs

appVars ==
    <<data_source, last_data, last_check, last_modified, cloud_url_input,
      cloud_sheet_input, result_column_index, now, fs, tasks, inbox, next_id,
      last_published, published>>

normVars == <<call, ret>>

vars == <<appVars, normVars>>

(***************************************************************************)
(* The outside world of the application.                                   *)
(***************************************************************************)
UPDATE_INTERVAL == 5
TickPeriod == 1

Paths == {"a.csv"}

\* What the file holds whenever it exists; a write changes its
\* modification time.
LocalContent ==
    [headers |-> Ok(<<h_Sport_ID, s_result>>),
     records |-> <<Ok(<<c_U10, c_5>>)>>]

\* The modification times a file can have: an older and a newer one.
FileTimes == {1, 2}

FileStates ==
    {None} \cup {Some([mtime |-> m, content |-> LocalContent]) :
                     m \in FileTimes}

\* The file at a path as read_csv finds it.
FileAt(path) ==
    IF fs[path] = None
    THEN MissingFile
    ELSE [openable |-> TRUE, headers |-> fs[path].val.content.headers,
          records |-> fs[path].val.content.records]

\* fs::metadata(path) and Metadata::modified.
fs_metadata(path) ==
    IF fs[path] = None THEN Err("NotFound") ELSE Ok([modified |-> fs[path].val.mtime])

u_good == <<"k", "/", "d", "/", "k">>

UrlInputs == {u_good}

\* What the user types as the sheet name: the field is left or made empty,
\* and fetch_data reads "Sheet1" (named sheets are given to fetch_data
\* under SpecNorm).
SheetInputs == {<<>>}

\* What the outside answers to a fetch of the application: authentication
\* fails, the request fails, or the sheet's rows come back.
AppFetchEnvs ==
    {[auth_ok |-> FALSE, response |-> Err("values_get")],
     [auth_ok |-> TRUE, response |-> Err("values_get")],
     [auth_ok |-> TRUE,
      response |-> Ok([values |-> Some(<< <<JString(s_result)>>,
                                          <<JString(c_5)>> >>)])]}

Local(path) == [kind |-> "Local", path |-> path]
Cloud(url, sheet) == [kind |-> "Cloud", url |-> url, sheet |-> sheet]

(***************************************************************************)
(* ScoreViewer (main.rs).                                                  *)
(***************************************************************************)
Init ==
    /\ data_source = None
    /\ last_data = None
    /\ last_check = 0
    /\ last_modified = None
    /\ cloud_url_input = <<>>
    /\ cloud_sheet_input = <<>>
    /\ result_column_index = None
    /\ now = 0
    /\ fs \in [Paths -> FileStates]
    /\ tasks = {}
    /\ inbox = <<>>
    /\ next_id = 1
    /\ last_published = None
    /\ published = [i \in 1..MaxDispatch |-> 0]
    /\ call = [op |-> "none"]
    /\ ret = None

\* Command::perform(async block, Message::DataUpdated): one more running
\* task, for the source it was dispatched for.  As history the task keeps
\* its number and the handler that dispatched it.
Dispatch(source, by) ==
    /\ next_id <= MaxDispatch
    /\ tasks' = tasks \cup {[id |-> next_id, source |-> source, by |-> by]}
    /\ next_id' = next_id + 1

NoDispatch == UNCHANGED <<tasks, next_id>>

\* Message::FileSelected(path_opt)
FileSelected(path_opt) ==
    /\ IF path_opt.tag = "Some"
       THEN LET path == path_opt.val
                metadata == fs_metadata(path)
            IN  /\ data_source' = Some(Local(path))
                /\ last_modified' =
                       IF metadata.tag = "Ok" THEN Some(metadata.val.modified)
                       ELSE None
                /\ Dispatch(Local(path), "FileSelected")
       ELSE /\ UNCHANGED <<data_source, last_modified>>
            /\ NoDispatch
    /\ UNCHANGED <<last_data, last_check, cloud_url_input, cloud_sheet_input,
                   result_column_index, now, fs, inbox, last_published,
                   published>>
    /\ UNCHANGED normVars

\* Message::UpdateCloudUrl(url)
UpdateCloudUrl(url) ==
    /\ cloud_url_input' = url
    /\ UNCHANGED <<data_source, last_data, last_check, last_modified,
                   cloud_sheet_input, result_column_index, now, fs, tasks,
                   inbox, next_id, last_published, published>>
    /\ UNCHANGED normVars

\* Message::UpdateSheetName(name)
UpdateSheetName(name) ==
    /\ cloud_sheet_input' = name
    /\ UNCHANGED <<data_source, last_data, last_check, last_modified,
                   cloud_url_input, result_column_index, now, fs, tasks,
                   inbox, next_id, last_published, published>>
    /\ UNCHANGED normVars

\* Message::ConnectToCloud
ConnectToCloud ==
    /\ IF ~is_empty(cloud_url_input)
       THEN /\ data_source' = Some(Cloud(cloud_url_input, cloud_sheet_input))
            /\ Dispatch(Cloud(cloud_url_input, cloud_sheet_input),
                        "ConnectToCloud")
       ELSE /\ UNCHANGED data_source
            /\ NoDispatch
    /\ UNCHANGED <<last_data, last_check, last_modified, cloud_url_input,
                   cloud_sheet_input, result_column_index, now, fs, inbox,
                   last_published, published>>
    /\ UNCHANGED normVars

\* headers.iter().position(|h| h.to_lowercase() == "result")
position_of_result(headers) ==
    LET hits == {i \in 1..Len(headers) : to_lowercase(headers[i]) = s_result}
    IN  IF hits = {} THEN None
        ELSE Some(CHOOSE i \in hits : \A j \in hits : i <= j)

\* Mutant: a message of a task dispatched before the one published last
\* is dropped.
DataUpdated_NewestTriggerWins ==
    /\ inbox # <<>>
    /\ LET data == Head(inbox).data
           stale == last_published # None
                    /\ Head(inbox).id < last_published.val.msg.id
       IN  /\ last_data' = IF stale THEN last_data ELSE Some(data)
           /\ result_column_index' =
                  IF ~stale /\ data.headers # <<>>
                  THEN position_of_result(data.headers)
                  ELSE result_column_index
    /\ inbox' = Tail(inbox)
    /\ last_published' =
           Some([msg |-> Head(inbox),
                 after |-> IF last_published = None THEN 0
                           ELSE last_published.val.msg.id])
    /\ published' = [published EXCEPT ![Head(inbox).id] = @ + 1]
    /\ UNCHANGED <<data_source, last_check, last_modified, cloud_url_input,
                   cloud_sheet_input, now, fs, tasks, next_id>>
    /\ UNCHANGED normVars

\* Message::DataUpdated(data), for the oldest message not yet handled.
DataUpdated ==
    /\ inbox # <<>>
    /\ LET data == Head(inbox).data
       IN  /\ last_data' = Some(data)
           /\ result_column_index' =
                  IF data.headers # <<>> THEN position_of_result(data.headers)
                  ELSE result_column_index
    /\ inbox' = Tail(inbox)
    /\ last_published' =
           Some([msg |-> Head(inbox),
                 after |-> IF last_published = None THEN 0
                           ELSE last_published.val.msg.id])
    /\ published' = [published EXCEPT ![Head(inbox).id] = @ + 1]
    /\ UNCHANGED <<data_source, last_check, last_modified, cloud_url_input,
                   cloud_sheet_input, now, fs, tasks, next_id>>
    /\ UNCHANGED normVars

\* The Local branch of CheckForUpdates.
CheckLocal(path) ==
    LET metadata == fs_metadata(path)
    IN  IF metadata.tag = "Ok"
        THEN IF last_modified # None
             THEN IF metadata.val.modified > last_modified.val
                  THEN /\ last_modified' = Some(metadata.val.modified)
                       /\ Dispatch(Local(path), "CheckForUpdates")
                  ELSE UNCHANGED last_modified /\ NoDispatch
             ELSE /\ last_modified' = Some(metadata.val.modified)
                  /\ NoDispatch
        ELSE UNCHANGED last_modified /\ NoDispatch

\* Mutant: no fetch is dispatched while an earlier one is outstanding.
CheckCloud_OnlyWhenIdle(url, sheet) ==
    /\ UNCHANGED last_modified
    /\ IF tasks = {} /\ inbox = <<>>
       THEN Dispatch(Cloud(url, sheet), "CheckForUpdates")
       ELSE NoDispatch

\* The Cloud branch of CheckForUpdates.
CheckCloud(url, sheet) ==
    /\ UNCHANGED last_modified
    /\ Dispatch(Cloud(url, sheet), "CheckForUpdates")

\* Mutant: every tick is taken as eligible.
CheckForUpdates_Ungated ==
    /\ now + TickPeriod <= MaxTime
    /\ now' = now + TickPeriod
    /\ last_check' = now'
    /\ IF data_source = None
       THEN UNCHANGED last_modified /\ NoDispatch
       ELSE IF data_source.val.kind = "Local"
       THEN CheckLocal(data_source.val.path)
       ELSE CheckCloud(data_source.val.url, data_source.val.sheet)
    /\ UNCHANGED <<data_source, last_data, cloud_url_input, cloud_sheet_input,
                   result_column_index, fs, inbox, last_published, published>>
    /\ UNCHANGED normVars

\* Message::CheckForUpdates, sent by the subscription every TickPeriod.
CheckForUpdates ==
    /\ now + TickPeriod <= MaxTime
    /\ now' = now + TickPeriod
    /\ IF now' - last_check >= UPDATE_INTERVAL
       THEN /\ last_check' = now'
            /\ IF data_source = None
               THEN UNCHANGED last_modified /\ NoDispatch
               ELSE IF data_source.val.kind = "Local"
               THEN CheckLocal(data_source.val.path)
               ELSE CheckCloud(data_source.val.url, data_source.val.sheet)
       ELSE /\ UNCHANGED <<last_check, last_modified>>
            /\ NoDispatch
    /\ UNCHANGED <<data_source, last_data, cloud_url_input, cloud_sheet_input,
                   result_column_index, fs, inbox, last_published, published>>
    /\ UNCHANGED normVars

(***************************************************************************)
(* The dispatched tasks and the outside world.                             *)
(***************************************************************************)
\* A running task finishes; its output becomes a DataUpdated message.  The
\* message records, as history, the task and whether its ingestion failed.
Deliver(t, data, failed) ==
    /\ tasks' = tasks \ {t}
    /\ inbox' = Append(inbox, [id |-> t.id, source |-> t.source, by |-> t.by,
                               data |-> data, failed |-> failed])
    /\ UNCHANGED <<data_source, last_data, last_check, last_modified,
                   cloud_url_input, cloud_sheet_input, result_column_index,
                   now, fs, next_id, last_published, published>>
    /\ UNCHANGED normVars

\* What the async block around read_csv delivers for each file it can
\* find, and what the one around fetch_data delivers for each URL, sheet
\* name and answer of the outside: local_task and cloud_task, tabulated.
LocalOutcomes ==
    {[file |-> file, data |-> local_task(file)] :
         file \in {MissingFile} \cup
                  {[openable |-> TRUE, headers |-> LocalContent.headers,
                    records |-> LocalContent.records]}}

CloudOutcomes ==
    {[url |-> url, sheet |-> sheet, env |-> env,
      data |-> cloud_task(url, sheet, env),
      failed |-> fetch_data(url, sheet, env).result.tag = "Err"] :
         url \in UrlInputs, sheet \in {<<>>} \cup SheetInputs,
         env \in AppFetchEnvs}

\* The async block around CSVHandler::read_csv.
RunLocalTask ==
    \E t \in tasks, outcome \in LocalOutcomes :
        /\ t.source.kind = "Local"
        /\ outcome.file = FileAt(t.source.path)
        /\ Deliver(t, outcome.data,
                   ~outcome.file.openable \/ outcome.file.headers.tag = "Err")

\* Mutant: a fetch that fails is given up, no message is sent for it.
RunCloudTask_DropFailed ==
    \E t \in tasks, outcome \in CloudOutcomes :
        /\ t.source.kind = "Cloud"
        /\ outcome.url = t.source.url /\ outcome.sheet = t.source.sheet
        /\ IF outcome.failed
           THEN /\ tasks' = tasks \ {t}
                /\ UNCHANGED <<data_source, last_data, last_check,
                               last_modified, cloud_url_input,
                               cloud_sheet_input, result_column_index, now,
                               fs, inbox, next_id, last_published, published>>
                /\ UNCHANGED normVars
           ELSE Deliver(t, outcome.data, FALSE)

\* The async block around CloudHandler::fetch_data.
RunCloudTask ==
    \E t \in tasks, outcome \in CloudOutcomes :
        /\ t.source.kind = "Cloud"
        /\ outcome.url = t.source.url /\ outcome.sheet = t.source.sheet
        /\ Deliver(t, outcome.data, outcome.failed)

\* The file at a path is written, replaced or removed.
FileChanged ==
    \E path \in Paths, f \in FileStates :
        /\ f # fs[path]
        /\ fs' = [fs EXCEPT ![path] = f]
        /\ UNCHANGED <<data_source, last_data, last_check, last_modified,
                       cloud_url_input, cloud_sheet_input, result_column_index,
                       now, tasks, inbox, next_id, last_published, published>>
        /\ UNCHANGED normVars

Next ==
    \/ \E path_opt \in {None} \cup {Some(p) : p \in Paths} : FileSelected(path_opt)
    \/ \E url \in UrlInputs : UpdateCloudUrl(url)
    \/ \E name \in SheetInputs : UpdateSheetName(name)
    \/ ConnectToCloud
    \/ DataUpdated
    \/ CheckForUpdates
    \/ RunLocalTask
    \/ RunCloudTask
    \/ FileChanged

Spec == Init /\ [][Next]_vars

\* The executor runs every future handed to Command::perform to its end
\* and the runtime hands every message produced to update(): a running
\* task is not left running forever, a message not left unhandled forever.
Fairness ==
    /\ WF_vars(RunLocalTask)
    /\ WF_vars(RunCloudTask)
    /\ WF_vars(DataUpdated)

FairSpec == Init /\ [][Next]_vars /\ Fairness

(***************************************************************************)
(* SpecNorm: the ingestion functions applied to generated inputs.  Init    *)
(* draws the call and its arguments, the action of the function called     *)
(* computes what it returns.                                               *)
(***************************************************************************)
Calls ==
    {[op |-> "replace_header", header |-> h] : h \in HeaderPoolAll}
    \cup {[op |-> "read_csv", file |-> f] : f \in LocalFiles}
    \cup {[op |-> "process_data", response |-> r] : r \in Responses}
    \cup {[op |-> "fetch_data", segs |-> sg, url |-> join(sg, "/"),
            sheet |-> sh, env |-> e] :
              sg \in UrlSegs, sh \in SheetNames, e \in FetchEnvs}
    \cup {[op |-> "normalise", headers |-> hs, rows |-> rs] :
              hs \in SeqUpTo(HeaderPool, MaxCols), rs \in SeqUpTo(RowPool, MaxRows)}

Call_replace_header ==
    /\ call.op = "replace_header" /\ ret = None
    /\ ret' = Some([csv |-> CSVHandler_replace_header(call.header),
                    cloud |-> CloudHandler_replace_header(call.header)])
    /\ UNCHANGED call
    /\ UNCHANGED appVars

Call_read_csv ==
    /\ call.op = "read_csv" /\ ret = None
    /\ ret' = Some(local_task(call.file))
    /\ UNCHANGED call
    /\ UNCHANGED appVars

Call_process_data ==
    /\ call.op = "process_data" /\ ret = None
    /\ ret' = Some(process_data(call.response))
    /\ UNCHANGED call
    /\ UNCHANGED appVars

Call_fetch_data ==
    /\ call.op = "fetch_data" /\ ret = None
    /\ ret' = Some([fetch |-> fetch_data(call.url, call.sheet, call.env),
                    data |-> cloud_task(call.url, call.sheet, call.env)])
    /\ UNCHANGED call
    /\ UNCHANGED appVars

\* A row of text cells as a row of a remote response.
TextRowAsValues(row) == [i \in 1..Len(row) |-> JString(row[i])]

\* The same header row and data rows given to both paths: as the header
\* row and records of a readable file to read_csv, as the String cells of a
\* response to process_data.
Call_normalise ==
    /\ call.op = "normalise" /\ ret = None
    /\ LET file == [openable |-> TRUE, headers |-> Ok(call.headers),
                    records |-> [k \in 1..Len(call.rows) |-> Ok(call.rows[k])]]
           values == <<TextRowAsValues(call.headers)>> \o
                     [k \in 1..Len(call.rows) |-> TextRowAsValues(call.rows[k])]
       IN  ret' = Some([local |-> read_csv(file),
                        remote |-> process_data([values |-> Some(values)])])
    /\ UNCHANGED call
    /\ UNCHANGED appVars

\* The application stands still while the functions are exercised.
AppIdle ==
    /\ data_source = None
    /\ last_data = None
    /\ last_check = 0
    /\ last_modified = None
    /\ cloud_url_input = <<>>
    /\ cloud_sheet_input = <<>>
    /\ result_column_index = None
    /\ now = 0
    /\ fs = [p \in Paths |-> None]
    /\ tasks = {}
    /\ inbox = <<>>
    /\ next_id = 1
    /\ last_published = None
    /\ published = [i \in 1..MaxDispatch |-> 0]

InitNorm == call \in Calls /\ ret = None /\ AppIdle

NextNorm ==
    \/ Call_replace_header
    \/ Call_read_csv
    \/ Call_process_data
    \/ Call_fetch_data
    \/ Call_normalise

SpecNorm == InitNorm /\ [][NextNorm]_vars

(***************************************************************************)
(* Vocabulary of the claims about normalisation.  A returned read_csv or   *)
(* process_data call that got as far as a header row is a normalisation:   *)
(* NormHeaders is the raw header row as text, NormRows the raw data rows   *)
(* read after it (for the remote path, from the row process_data took as   *)
(* the header row), NormOut the table returned.                            *)
(***************************************************************************)
HideKeywords ==
    {s_sport_id, s_team_members, s_team_name, s_info, s_result_code,
     s_position_pre}

HasHideKeyword(h) == \E k \in HideKeywords : contains(to_lowercase(h), k)

IsLocalNorm ==
    /\ call.op = "read_csv" /\ ret # None
    /\ call.file.openable /\ call.file.headers.tag = "Ok"

IsRemoteNorm ==
    /\ call.op = "process_data" /\ ret # None
    /\ call.response.values.tag = "Some" /\ call.response.values.val # <<>>

IsNorm == IsLocalNorm \/ IsRemoteNorm

RemoteFrom ==
    LET values == call.response.values.val
    IN  SubSeq(values, CloudHandler_start_index(values), Len(values))

NormHeaders ==
    IF IsLocalNorm THEN call.file.headers.val
    ELSE [i \in 1..Len(RemoteFrom[1]) |-> RemoteFrom[1][i].s]

\* The raw data rows, each cell as the text the path emits for it.
NormRows ==
    IF IsLocalNorm
    THEN LET oks == SelectSeq(call.file.records, LAMBDA x : x.tag = "Ok")
         IN  [k \in 1..Len(oks) |-> oks[k].val]
    ELSE LET rows == Tail(RemoteFrom)
         IN  [k \in 1..Len(rows) |->
                 [i \in 1..Len(rows[k]) |-> Value_to_string(rows[k][i])]]

NormOut == IF IsLocalNorm THEN ret.val ELSE ret.val.val

\* The column indices of raw row r that are under a visible header.
VisibleIdx(r, hdr) ==
    {i \in 1..Len(r) : i <= Len(hdr) /\ ~HasHideKeyword(hdr[i])}

\* The j-th smallest element of the set of numbers S.
Kth(S, j) == CHOOSE i \in S : Cardinality({k \in S : k < i}) = j - 1

Range(f) == {f[x] : x \in DOMAIN f}

(***************************************************************************)
(* C1: in both paths a column whose raw header contains a hide keyword,    *)
(* in any letter case, gets no output header and none of its cells reaches *)
(* an output row; every other column under the header row is retained.     *)
(* (The cells of a generated row are pairwise different, so a cell is      *)
(* found in an output row by its text.)                                    *)
(***************************************************************************)
C1_HiddenColumnsExcluded ==
    IsNorm =>
        LET hdr == NormHeaders
            out == NormOut
            raw == Range(NormRows)
        IN  /\ Len(out.headers) =
                   Cardinality({i \in 1..Len(hdr) : ~HasHideKeyword(hdr[i])})
            /\ \A o \in Range(out.rows) :
                   \E r \in raw :
                       LET vis == VisibleIdx(r, hdr)
                       IN  /\ Len(o) = Cardinality(vis)
                           /\ \A i \in 1..Len(r) : r[i] \in Range(o) <=> i \in vis

\* A local file whose header row hides its second column (written
\* "Sport_ID") and keeps its first, read with a row that has both cells.
C1_Witness ==
    /\ IsLocalNorm
    /\ Len(NormHeaders) >= 2
    /\ NormHeaders[2] = h_Sport_ID /\ ~HasHideKeyword(NormHeaders[1])
    /\ Len(NormRows) = 1 /\ Len(NormRows[1]) >= 2 /\ NormRows[1][2] = c_5
    /\ NormOut.rows = << <<c_U10>> >>

\* The rule table as the specification orders it.
ClaimTable ==
    << <<s_category, s_Series>>, <<s_first_name, s_Name>>,
       <<s_last_name, s_Surname>>, <<s_organization, s_Club>>,
       <<s_napat, s_X>>, <<s_result, s_Result>>, <<s_posit, s_Rank>> >>

\* The text between the first '-' of h and the next '-' (or the end).
TokenAfterFirstDash(h) ==
    LET p == CHOOSE i \in 1..Len(h) : h[i] = "-" /\ \A j \in 1..(i - 1) : h[j] # "-"
        rest == SubSeq(h, p + 1, Len(h))
        ends == {i \in 1..Len(rest) : rest[i] = "-"} \cup {Len(rest) + 1}
    IN  SubSeq(rest, 1, Kth(ends, 1) - 1)

ClaimName(h) ==
    LET l == to_lowercase(h)
        hits == {k \in 1..Len(ClaimTable) : contains(l, ClaimTable[k][1])}
    IN  IF contains(l, s_part) THEN <<"S">> \o TokenAfterFirstDash(h)
        ELSE IF contains(l, s_psum) THEN <<"P">> \o TokenAfterFirstDash(h)
        ELSE IF hits # {} THEN ClaimTable[Kth(hits, 1)][2]
        ELSE h

VisibleHeaderIdx == {i \in 1..Len(NormHeaders) : ~HasHideKeyword(NormHeaders[i])}

(***************************************************************************)
(* C2: the display name of a visible raw header h is decided by the first  *)
(* matching rule, case-insensitively: "part-" gives "S" + the token after  *)
(* the first '-', else "psum-" gives "P" + that token, else the first      *)
(* entry of the table whose key h contains, else h unchanged.  Stated for  *)
(* both handlers' replace_header and for the headers either path emits.    *)
(***************************************************************************)
C2_FirstMatchingRule ==
    /\ (call.op = "replace_header" /\ ret # None) =>
           /\ ret.val.csv = ClaimName(call.header)
           /\ ret.val.cloud = ClaimName(call.header)
    /\ IsNorm =>
           /\ Len(NormOut.headers) = Cardinality(VisibleHeaderIdx)
           /\ \A j \in 1..Len(NormOut.headers) :
                  NormOut.headers[j] =
                      ClaimName(NormHeaders[Kth(VisibleHeaderIdx, j)])

\* The name the path itself gives to the header of input column i.
PathName(i) ==
    IF IsLocalNorm THEN CSVHandler_replace_header(NormHeaders[i])
    ELSE CloudHandler_replace_header(Value_to_string(RemoteFrom[1][i]))

(***************************************************************************)
(* C3: every output row is the raw row's cells at the visible column       *)
(* indices, in input order: the j-th cell of an output row and the j-th    *)
(* output header come from the same input column (the j-th visible one), a *)
(* shorter raw row yields fewer cells, and no output row is longer than    *)
(* the output header list.                                                 *)
(***************************************************************************)
C3_RowsAlignedWithHeaders ==
    IsNorm =>
        LET hdr == NormHeaders
            out == NormOut
            raw == Range(NormRows)
            vis == VisibleHeaderIdx
        IN  /\ Len(out.headers) = Cardinality(vis)
            /\ \A j \in 1..Len(out.headers) :
                   out.headers[j] = PathName(Kth(vis, j))
            /\ \A o \in Range(out.rows) :
                   /\ Len(o) <= Len(out.headers)
                   /\ \E r \in raw :
                          /\ Len(o) = Cardinality(VisibleIdx(r, hdr))
                          /\ \A j \in 1..Len(o) : o[j] = r[Kth(vis, j)]

\* A remote response whose header row hides its middle column, with one
\* data row longer than the header row and one shorter.
C3_Witness ==
    /\ IsRemoteNorm
    /\ Len(NormHeaders) = 3 /\ VisibleHeaderIdx = {1, 3}
    /\ \E r \in Range(NormRows) : Len(r) = 4
    /\ \E r \in Range(NormRows) : Len(r) = 1
    /\ Len(NormOut.rows) = 2
    /\ {Len(NormOut.rows[1]), Len(NormOut.rows[2])} = {1, 2}

\* The content of a raw cell: a csv field is its text, a remote String its
\* characters, a remote Number its digits, a remote Null nothing.
CellContent(c) ==
    IF IsLocalNorm THEN c ELSE IF c.t = "Null" THEN <<>> ELSE c.s

AllCellsBlank(r) == \A i \in 1..Len(r) : is_empty(trim(CellContent(r[i])))

RawRows ==
    IF IsLocalNorm
    THEN LET oks == SelectSeq(call.file.records, LAMBDA x : x.tag = "Ok")
         IN  [k \in 1..Len(oks) |-> oks[k].val]
    ELSE Tail(RemoteFrom)

(***************************************************************************)
(* C4: in both paths a data row is omitted exactly when every one of its   *)
(* cells is empty after trimming; a row with a non-whitespace cell, of     *)
(* whatever value type, is retained, and retained rows keep their order.   *)
(***************************************************************************)
C4_OnlyBlankRowsDropped ==
    IsNorm =>
        LET kept == SelectSeq(RawRows, LAMBDA r : ~AllCellsBlank(r))
        IN  /\ Len(NormOut.rows) = Len(kept)
            /\ \A k \in 1..Len(kept) :
                   Len(NormOut.rows[k]) =
                       Cardinality(VisibleIdx(kept[k], NormHeaders))

\* A row whose first cell is the text "category" in any letter case.
ClaimIsCategoryRow(row) ==
    /\ row # <<>>
    /\ row[1].t = "String"
    /\ to_lowercase(row[1].s) = s_category

ClaimHeaderIndex(values) ==
    LET hits == {i \in 1..Len(values) : ClaimIsCategoryRow(values[i])}
    IN  IF hits # {} THEN Kth(hits, 1) ELSE 1

(***************************************************************************)
(* C5: the header row of a non-empty remote value set is the first row     *)
(* whose first cell, case-folded, equals "category", the rows before it    *)
(* are discarded; with no such row, row 0 is the header row.               *)
(***************************************************************************)
C5_CategoryRowIsHeaderRow ==
    IsRemoteNorm =>
        LET values == call.response.values.val
            k == ClaimHeaderIndex(values)
        IN  /\ Len(NormOut.headers) =
                   Cardinality({i \in 1..Len(values[k]) :
                                    ~HasHideKeyword(values[k][i].s)})
            /\ Len(NormOut.rows) <= Len(values) - k

\* A returned fetch_data call.
IsFetch == call.op = "fetch_data" /\ ret # None

\* The positions of the segments "d" that have a segment after them.
DSegments(segs) == {i \in 1..(Len(segs) - 1) : segs[i] = <<"d">>}

(***************************************************************************)
(* C6: the spreadsheet identifier is the URL segment right after the       *)
(* (first) segment equal to "d"; a URL without such a segment makes        *)
(* fetch_data fail with the invalid-URL error before authenticate or       *)
(* values_get is attempted, and the task publishes the empty Table.        *)
(***************************************************************************)
C6_IdentifierAfterD ==
    IsFetch =>
        LET f == ret.val.fetch
            ds == DSegments(call.segs)
        IN  IF ds = {}
            THEN /\ f.result = Err(s_InvalidUrl)
                 /\ f.steps = <<"extract_spreadsheet_id">>
                 /\ f.request = None
                 /\ ret.val.data = TableData_empty
            ELSE /\ f.result # Err(s_InvalidUrl)
                 /\ Len(f.steps) >= 2
                 /\ f.request # None =>
                        f.request.val[1] = call.segs[Kth(ds, 1) + 1]

\* A URL whose only "d" is its last segment, next to a segment "dd": no
\* identifier, nothing attempted, the empty Table published although the
\* outside would have answered with rows.
C6_Witness ==
    /\ IsFetch
    /\ call.segs = << <<"d","d">>, <<"k">>, <<"d">> >>
    /\ call.env.auth_ok /\ call.env.response.tag = "Ok"
    /\ call.env.response.val.values # None
    /\ ret.val.fetch.steps = <<"extract_spreadsheet_id">>
    /\ ret.val.data = TableData_empty

\* A returned read_csv call.
IsRead == call.op = "read_csv" /\ ret # None

(***************************************************************************)
(* C7: read_csv always returns a Table: the empty Table when the file      *)
(* cannot be opened or its header row cannot be read; a record that fails  *)
(* to parse is skipped alone, the other records are ingested in order.     *)
(***************************************************************************)
C7_ReadCsvDegrades ==
    IsRead =>
        /\ DOMAIN ret.val = {"headers", "rows"}
        /\ (~call.file.openable \/ call.file.headers.tag = "Err") =>
               ret.val = TableData_empty
        /\ IsLocalNorm =>
               LET oks == SelectSeq(call.file.records, LAMBDA x : x.tag = "Ok")
                   kept == SelectSeq(oks, LAMBDA x :
                               \E i \in 1..Len(x.val) : ~is_empty(trim(x.val[i])))
               IN  /\ Len(ret.val.rows) = Len(kept)
                   /\ \A k \in 1..Len(kept) :
                          LET r == kept[k].val
                              vis == VisibleIdx(r, NormHeaders)
                          IN  /\ Len(ret.val.rows[k]) = Cardinality(vis)
                              /\ \A j \in 1..Cardinality(vis) :
                                     ret.val.rows[k][j] = r[Kth(vis, j)]

\* A readable file whose first record fails to parse and whose second is
\* ingested.
C7_Witness ==
    /\ IsLocalNorm
    /\ Len(call.file.records) = 2
    /\ call.file.records[1].tag = "Err"
    /\ call.file.records[2] = Ok(<<c_U10, c_5, c_12_3, c_extra>>)
    /\ NormHeaders = <<h_Category, s_result>>
    /\ ret.val = TableData(<<s_Series, s_Result>>, << <<c_U10, c_5>> >>)

(***************************************************************************)
(* Vocabulary of the claims about the polling loop.                        *)
(***************************************************************************)
\* A step that handles CheckForUpdates on a tick that passes the gate.
EligibleTick ==
    /\ now' = now + TickPeriod
    /\ now' - last_check >= UPDATE_INTERVAL

\* A step that dispatches an ingestion for the given source.
Dispatches(source) ==
    /\ next_id' = next_id + 1
    /\ \E t \in tasks' \ tasks : t.id = next_id /\ t.source = source

DispatchesNothing == tasks' = tasks /\ next_id' = next_id

\* A step that handles the DataUpdated message of a finished task.
Publishes == inbox # <<>> /\ inbox' = Tail(inbox) /\ tasks' = tasks

(***************************************************************************)
(* C8: on an eligible tick with a Local source a read is dispatched        *)
(* exactly when the file's modification time is strictly newer than the    *)
(* last-observed one; when it is not newer or cannot be obtained, nothing  *)
(* is dispatched and the last-known Table and the last-observed            *)
(* modification time stay as they are: the last-observed modification      *)
(* time never changes without a read being dispatched for it.              *)
(***************************************************************************)
C8_LocalReadIffNewer ==
    [][(EligibleTick /\ data_source # None /\ data_source.val.kind = "Local") =>
           LET metadata == fs_metadata(data_source.val.path)
           IN  /\ (metadata.tag = "Ok" /\ last_modified # None
                   /\ metadata.val.modified > last_modified.val)
                      => Dispatches(data_source.val)
               /\ (metadata.tag = "Err"
                   \/ (last_modified # None
                       /\ metadata.val.modified <= last_modified.val))
                      => DispatchesNothing
               /\ DispatchesNothing =>
                      last_modified' = last_modified /\ last_data' = last_data
               /\ last_modified' # last_modified => Dispatches(data_source.val)
      ]_vars

(***************************************************************************)
(* C9: every eligible tick with a Cloud source dispatches a fetch, with no *)
(* staleness check; a fetch that fails delivers the empty Table, which     *)
(* becomes the last-known Table when its DataUpdated is handled, and later *)
(* eligible ticks dispatch again.                                          *)
(***************************************************************************)
C9_CloudPollUnconditional ==
    [][/\ (EligibleTick /\ data_source # None /\ data_source.val.kind = "Cloud")
              => Dispatches(data_source.val)
       /\ \A k \in 1..Len(inbox') :
              (inbox'[k].source.kind = "Cloud" /\ inbox'[k].failed)
                  => inbox'[k].data = TableData_empty
       /\ (Publishes /\ Head(inbox).source.kind = "Cloud" /\ Head(inbox).failed)
              => last_data' = Some(TableData_empty)
      ]_vars

\* The connect-time fetch failed and was published as the empty Table, and
\* the eligible tick after it dispatched the next fetch all the same.
C9_Witness ==
    /\ data_source # None /\ data_source.val.kind = "Cloud"
    /\ last_published # None
    /\ last_published.val.msg.failed
    /\ last_published.val.msg.by = "ConnectToCloud"
    /\ last_data = Some(TableData_empty)
    /\ last_check = UPDATE_INTERVAL
    /\ \E t \in tasks : t.by = "CheckForUpdates" /\ t.source = data_source.val

(***************************************************************************)
(* C10: fetches may overlap, and whatever the order in which they were     *)
(* triggered, the last-known Table is the result of the fetch whose        *)
(* DataUpdated was handled last.                                           *)
(***************************************************************************)
C10_LastWriteWins ==
    last_published # None => last_data = Some(last_published.val.msg.data)

\* A tick dispatched fetch 2 while fetch 1 was outstanding; fetch 2 was
\* published first (its rows set the result column), fetch 1 (triggered
\* first, failed) last, and the Table is the empty one of fetch 1.
C10_Witness ==
    /\ last_published # None
    /\ last_published.val.msg.id = 1
    /\ last_published.val.after = 2
    /\ last_published.val.msg.source.kind = "Cloud"
    /\ last_published.val.msg.failed
    /\ next_id = 3 /\ tasks = {} /\ inbox = <<>>
    /\ last_check = UPDATE_INTERVAL
    /\ data_source = Some(last_published.val.msg.source)
    /\ result_column_index # None
    /\ last_data = Some(TableData_empty)

(***************************************************************************)
(* C11: after every publish the result-column index is the position of the *)
(* first header of the Table just published that equals "result" in any    *)
(* letter case, and none when that Table has no such header, the empty     *)
(* Table included: it never refers to a header of an earlier Table.        *)
(***************************************************************************)
C11_ResultIndexOfPublished ==
    last_published # None =>
        LET headers == last_published.val.msg.data.headers
            hits == {i \in 1..Len(headers) : to_lowercase(headers[i]) = s_result}
        IN  result_column_index = IF hits = {} THEN None ELSE Some(Kth(hits, 1))

(***************************************************************************)
(* C12: with a tick every TickPeriod (1 s) and UPDATE_INTERVAL = 5 s, a    *)
(* tick dispatches only when at least UPDATE_INTERVAL has passed since the *)
(* previous eligible tick (last_check is the time of that tick, or of      *)
(* construction), so dispatching ticks are at least 5 ticks apart; an      *)
(* eligible tick records its time; a tick that is not eligible changes     *)
(* nothing: last_check, last_modified, last_data and data_source stay and  *)
(* nothing is dispatched.                                                  *)
(***************************************************************************)
C12_TickGating ==
    [][(now' = now + TickPeriod) =>
           /\ last_check <= now
           /\ ~DispatchesNothing =>
                  /\ now' - last_check >= UPDATE_INTERVAL
                  /\ (now' - last_check) \div TickPeriod >= 5
           /\ now' - last_check >= UPDATE_INTERVAL => last_check' = now'
           /\ now' - last_check < UPDATE_INTERVAL =>
                  /\ DispatchesNothing
                  /\ UNCHANGED <<last_check, last_modified, last_data,
                                 data_source, inbox>>
      ]_vars

\* The tick at 5 s was eligible and dispatched nothing, the four ticks
\* after it were not eligible, and the tick at 10 s dispatched a fetch.
C12_Witness ==
    /\ now = 2 * UPDATE_INTERVAL /\ last_check = now
    /\ next_id = 3
    /\ \E t \in tasks : t.id = 2 /\ t.by = "CheckForUpdates"

\* A step that replaces the active source by another one.
ReplacesSource ==
    data_source # None /\ data_source' # None /\ data_source' # data_source

(***************************************************************************)
(* C13: when the active source is replaced (FileSelected with a path,      *)
(* ConnectToCloud with a non-empty URL) the polling state held for the old *)
(* source is discarded: its Table, its modification marker and its tick    *)
(* timestamp do not survive the replacement; in every state where the      *)
(* active source is Cloud no modification marker is held.                  *)
(***************************************************************************)
C13_PollStateDiscarded ==
    [][/\ ReplacesSource =>
              /\ last_data' = None
              /\ last_check' = now'
              /\ last_modified' =
                     IF data_source'.val.kind = "Local"
                        /\ fs_metadata(data_source'.val.path).tag = "Ok"
                     THEN Some(fs_metadata(data_source'.val.path).val.modified)
                     ELSE None
       /\ (data_source' # None /\ data_source'.val.kind = "Cloud")
              => last_modified' = None
      ]_vars

(***************************************************************************)
(* C14: the normalisation rules are shared: for every raw header row and   *)
(* every sequence of raw data rows of text cells, the Table of the local   *)
(* path (read_csv) is identical to the Table of the remote path            *)
(* (process_data) given the same header row and data rows.                 *)
(***************************************************************************)
C14_SharedNormalisation ==
    (call.op = "normalise" /\ ret # None) =>
        ret.val.remote = Ok(ret.val.local)

\* How many messages of task i wait to be handled.
Waiting(i) == Cardinality({k \in 1..Len(inbox) : inbox[k].id = i})

\* How many running tasks carry the number i.
Running(i) == Cardinality({t \in tasks : t.id = i})

(***************************************************************************)
(* C15: every ingestion dispatched (by FileSelected, ConnectToCloud or an  *)
(* eligible tick) eventually delivers exactly one publish; the message     *)
(* carries a Table, the empty Table when the ingestion failed; a running   *)
(* fetch does not keep a tick from being handled.  A task is running,      *)
(* waiting as a message or published, never two of these and never twice;  *)
(* published tasks stay published, so "again and again every task          *)
(* dispatched so far has been published" gives each task its publish.      *)
(***************************************************************************)
C15_EveryDispatchPublishesOnce ==
    /\ [](\A i \in 1..MaxDispatch :
              /\ published[i] <= 1
              /\ Running(i) + Waiting(i) + published[i] =
                     IF i < next_id THEN 1 ELSE 0)
    /\ [](\A k \in 1..Len(inbox) :
              /\ DOMAIN inbox[k].data = {"headers", "rows"}
              /\ inbox[k].failed => inbox[k].data = TableData_empty)
    /\ []((tasks # {} /\ now + TickPeriod <= MaxTime /\ next_id <= MaxDispatch)
              => ENABLED CheckForUpdates)
    /\ []<>(\A i \in 1..MaxDispatch : i < next_id => published[i] = 1)

\* The file selected was read and published, a tick dispatched a second
\* read of it, and that read, which failed (the file was gone when it
\* ran), was published as the empty Table.
C15_Witness ==
    /\ next_id = 3 /\ tasks = {} /\ inbox = <<>>
    /\ published[1] = 1 /\ published[2] = 1
    /\ last_published # None
    /\ last_published.val.msg.id = 2
    /\ last_published.val.msg.by = "CheckForUpdates"
    /\ last_published.val.msg.source.kind = "Local"
    /\ last_published.val.msg.failed
    /\ last_data = Some(TableData_empty)

(***************************************************************************)
(* C16: for a Local source the last-observed modification time is updated  *)
(* on completion of the read a tick dispatched: in the state the           *)
(* dispatching tick leaves, where the read is in flight, last_modified     *)
(* still holds the value it had before the tick.                           *)
(***************************************************************************)
PollTriggeredLocalReads(ts) ==
    {t \in ts : t.by = "CheckForUpdates" /\ t.source.kind = "Local"}

C16_MarkerUpdatedOnCompletion ==
    [][PollTriggeredLocalReads(tasks') # PollTriggeredLocalReads(tasks)
           /\ tasks \subseteq tasks'
           => last_modified' = last_modified]_vars

(***************************************************************************)
(* C17: once the first ingestion of a newly selected source has been       *)
(* published, no later publish installs the Table of an ingestion          *)
(* dispatched before that selection.  Task ids grow with dispatch, and a   *)
(* selection dispatches its first ingestion in the same step: when the     *)
(* message published last was dispatched by a selection and no selection   *)
(* dispatched since is running or waiting, it is the first ingestion of    *)
(* the active source, and every message with a smaller id belongs to a     *)
(* source active before; the property speaks of those whose source is      *)
(* another one than the active source.                                     *)
(***************************************************************************)
BySelection(m) == m.by \in {"FileSelected", "ConnectToCloud"}

FirstIngestionPublishedLast ==
    /\ last_published # None
    /\ BySelection(last_published.val.msg)
    /\ \A t \in tasks :
           BySelection(t) => t.id < last_published.val.msg.id
    /\ \A k \in 1..Len(inbox) :
           BySelection(inbox[k]) => inbox[k].id < last_published.val.msg.id

C17_NoStalePublish ==
    [][(/\ FirstIngestionPublishedLast
        /\ inbox # <<>>
        /\ Head(inbox).id < last_published.val.msg.id
        /\ Head(inbox).source # last_published.val.msg.source
        /\ published' # published)
           => last_data' = last_data]_vars

====
